---- MODULE Spec2Model ----
(***************************************************************************)
(* app.py: a linear script.  load_dotenv(); read account_sid and           *)
(* auth_token from the environment; build a twilio.rest.Client; create one *)
(* call with inline TwiML; print the call's SID.                           *)
(*                                                                         *)
(* The state is the process (its environment, its module-level names, its  *)
(* position in the script, its output streams and exit code) together with *)
(* what lies outside it: the environment the shell hands to each process,  *)
(* the .env file, and the provider's log of call-creation requests.        *)
(***************************************************************************)
EXTENDS Integers, Sequences, FiniteSets, TLC

\* How many times the script is started, one process after the other.
MaxRuns == 2

\* Python's None; also what os.getenv returns for a variable that is not set.
None == "<None>"

\* Python truthiness of an optional string: None and "" are falsy.
Falsy(v) == v = None \/ v = ""
Truthy(v) == ~Falsy(v)

\* The four variables app.py reads (lines 5, 6, 11, 12).
ConfigKeys == {"account_sid", "auth_token", "to", "from_"}

\* The two variables twilio.rest.Client reads from os.environ for a
\* username or password argument that is falsy.
SdkKeys == {"TWILIO_ACCOUNT_SID", "TWILIO_AUTH_TOKEN"}

Keys == ConfigKeys \cup SdkKeys

\* What the shell may hand to the process for each variable: not set, set
\* to the empty string, or set to a value (one value per variable, all
\* different, so that a value used in the wrong place shows).
ShellValues(k) ==
    CASE k = "account_sid" -> {None, "", "AC-shell"}
      [] k = "auth_token" -> {None, "", "token-shell"}
      [] k = "to" -> {None, "", "+1555-to"}
      [] k = "from_" -> {None, "", "+1555-from"}
      [] k = "TWILIO_ACCOUNT_SID" -> {None, "AC-sdk"}
      [] k = "TWILIO_AUTH_TOKEN" -> {None, "token-sdk"}

\* What the .env file may define: any subset of the four variables.
FileValue(k) ==
    CASE k = "account_sid" -> "AC-file"
      [] k = "auth_token" -> "token-file"
      [] k = "to" -> "+1555-to-file"
      [] k = "from_" -> "+1555-from-file"
      [] OTHER -> None

DotFiles ==
    { [k \in Keys |-> IF k \in S THEN FileValue(k) ELSE None] :
        S \in SUBSET ConfigKeys }

\* The identifiers the provider assigns to the calls it creates.
Sids == {"CA01", "CA02", "CA03"}

VARIABLES
    shellEnv,     \* the environment every process of the script inherits
    dotfile,      \* the .env file: variable -> value, None where absent
    run,          \* the number of the running (or last) process, from 1
    exits,        \* the exit codes of the processes that have ended
    pc,           \* the line about to execute, or waiting/eof/raised/exited
    environ,      \* os.environ of the process
    account_sid,  \* module-level name, line 5
    auth_token,   \* module-level name, line 6
    client,       \* module-level name, line 8
    call,         \* the SID of the call record bound at line 10
    stdout,       \* the lines written to standard output by the process
    stderr,       \* the uncaught-exception traces written by the process
    exitcode,     \* the process's exit code, -1 while it runs
    requests      \* the provider's log of call-creation requests, all runs

procVars == <<pc, environ, account_sid, auth_token, client, call, stdout,
              stderr, exitcode>>
vars == <<shellEnv, dotfile, run, exits, pc, environ, account_sid,
          auth_token, client, call, stdout, stderr, exitcode, requests>>

\* A name that is not bound yet.
NoClient == [built |-> FALSE, username |-> None, password |-> None]

(***************************************************************************)
(* The script's pieces, as operators.                                      *)
(***************************************************************************)

\* line 4, python-dotenv's load_dotenv() with its default override=False:
\* a variable of the file is put into os.environ unless it is set already.
\* (LoadDotenvOverride is load_dotenv(override=True), which C9 must tell
\* from it.)
LoadDotenvOverride(env, file) ==
    [k \in Keys |-> IF file[k] # None THEN file[k] ELSE env[k]]

load_dotenv(env, file) ==
    [k \in Keys |-> IF env[k] = None /\ file[k] # None THEN file[k] ELSE env[k]]

\* os.getenv(name): the value, or None; no default is passed.
\* (GetenvDefault is a read with a default, which C2 must tell from it.)
GetenvDefault(env, name) == IF Falsy(env[name]) THEN "+1555-default" ELSE env[name]

getenv(env, name) == env[name]

\* line 8, Client(account_sid, auth_token): the SDK keeps
\* username or environ.get("TWILIO_ACCOUNT_SID") and
\* password or environ.get("TWILIO_AUTH_TOKEN").
Client(sid, token, env) ==
    [built |-> TRUE,
     username |-> IF Truthy(sid) THEN sid ELSE env["TWILIO_ACCOUNT_SID"],
     password |-> IF Truthy(token) THEN token ELSE env["TWILIO_AUTH_TOKEN"]]

\* line 14: the inline TwiML, a literal.  (TwimlOther differs in case
\* only, which C5 must notice.)
TwimlOther == "<Response><Say>How are you</Say></Response>"

twiml == "<Response><Say>HOW are you</Say></Response>"

\* lines 10-15: the request client.calls.create(to=, from_=, twiml=) sends.
\* (CreateRequestSwapped exchanges to and from_, which C7 must notice.)
CreateRequestSwapped(cl, env, r) ==
    [run |-> r, to |-> getenv(env, "from_"), from_ |-> getenv(env, "to"),
     twiml |-> twiml, username |-> cl.username, password |-> cl.password,
     state |-> "pending", sid |-> None]

CreateRequest(cl, env, r) ==
    [run |-> r, to |-> getenv(env, "to"), from_ |-> getenv(env, "from_"),
     twiml |-> twiml, username |-> cl.username, password |-> cl.password,
     state |-> "pending", sid |-> None]

\* lines 10-15: the request goes out whatever was sent before: the script
\* keeps nothing between runs and sends no idempotency key.
\* (SubmitOnce drops a request equal to an earlier one, which C6 must
\* notice.)
SubmitOnce(reqs, req) ==
    IF \E i \in 1..Len(reqs) :
           /\ reqs[i].to = req.to
           /\ reqs[i].from_ = req.from_
           /\ reqs[i].twiml = req.twiml
    THEN reqs
    ELSE Append(reqs, req)

Submit(reqs, req) == Append(reqs, req)

\* line 17: print("Call SID:", call.sid) writes one line, its two arguments
\* separated by a space; the line is kept as the pair.
\* (PrintTwice and PrintOther write two lines, or an identifier that is not
\* the call's: C1 and C8 must notice.)
PrintTwice(out, sid) == Append(Append(out, <<"Call SID:", sid>>), <<"Call SID:", sid>>)

PrintOther(out, sid) == Append(out, <<"Call SID:", "CA00">>)

print(out, sid) == Append(out, <<"Call SID:", sid>>)

\* The script's order: the statement after each statement.
\* (NextLineLoop goes back to the create call after printing, which C4 must
\* notice.)
NextLineLoop(l) ==
    CASE l = "l4" -> "l5"
      [] l = "l5" -> "l6"
      [] l = "l6" -> "l8"
      [] l = "l8" -> "l10"
      [] l = "l10" -> "l17"
      [] l = "l17" -> "l10"

NextLine(l) ==
    CASE l = "l4" -> "l5"
      [] l = "l5" -> "l6"
      [] l = "l6" -> "l8"
      [] l = "l8" -> "l10"
      [] l = "l10" -> "l17"
      [] l = "l17" -> "eof"

\* An exception raised at line l: no statement of the script is inside a
\* try, so it leaves the module.
\* (Swallowed is the statement wrapped in try/except: pass, which C3 must
\* notice.)
Swallowed(l) == NextLine(l)

Propagate(l) == "raised"

\* The exit code of a module that raised (Python: 1) or ran to its end (0).
\* (ExitCodeAlwaysZero hides the failure, which C10 must notice.)
ExitCodeAlwaysZero(raised) == 0

ExitCode(raised) == IF raised THEN 1 ELSE 0

(***************************************************************************)
(* The provider.                                                           *)
(***************************************************************************)

\* The requests of run r, by position in the log.
RequestsOf(r) == {i \in 1..Len(requests) : requests[i].run = r}

UsedSids == {requests[i].sid : i \in 1..Len(requests)}

\* A request can succeed only with credentials and both numbers present
\* and non-empty.
ProviderMayAccept(req) ==
    /\ Truthy(req.username)
    /\ Truthy(req.password)
    /\ Truthy(req.to)
    /\ Truthy(req.from_)

(***************************************************************************)
(* Init: the first process is about to execute line 4.                     *)
(***************************************************************************)
Init ==
    /\ shellEnv \in {e \in [Keys -> UNION {ShellValues(k) : k \in Keys}] :
                        \A k \in Keys : e[k] \in ShellValues(k)}
    /\ dotfile \in DotFiles
    /\ run = 1
    /\ exits = <<>>
    /\ pc = "l4"
    /\ environ = shellEnv
    /\ account_sid = None
    /\ auth_token = None
    /\ client = NoClient
    /\ call = None
    /\ stdout = <<>>
    /\ stderr = <<>>
    /\ exitcode = -1
    /\ requests = <<>>

(***************************************************************************)
(* The statements.                                                         *)
(***************************************************************************)

\* line 4: load_dotenv()
LoadDotenv ==
    /\ pc = "l4"
    /\ environ' = load_dotenv(environ, dotfile)
    /\ pc' = NextLine("l4")
    /\ UNCHANGED <<shellEnv, dotfile, run, exits, account_sid, auth_token,
                   client, call, stdout, stderr, exitcode, requests>>

\* line 5: account_sid = os.getenv("account_sid")
ReadAccountSid ==
    /\ pc = "l5"
    /\ account_sid' = getenv(environ, "account_sid")
    /\ pc' = NextLine("l5")
    /\ UNCHANGED <<shellEnv, dotfile, run, exits, environ, auth_token,
                   client, call, stdout, stderr, exitcode, requests>>

\* line 6: auth_token = os.getenv("auth_token")
ReadAuthToken ==
    /\ pc = "l6"
    /\ auth_token' = getenv(environ, "auth_token")
    /\ pc' = NextLine("l6")
    /\ UNCHANGED <<shellEnv, dotfile, run, exits, environ, account_sid,
                   client, call, stdout, stderr, exitcode, requests>>

\* line 8: client = Client(account_sid, auth_token)
BuildClient ==
    /\ pc = "l8"
    /\ client' = Client(account_sid, auth_token, environ)
    /\ pc' = NextLine("l8")
    /\ UNCHANGED <<shellEnv, dotfile, run, exits, environ, account_sid,
                   auth_token, call, stdout, stderr, exitcode, requests>>

\* line 8, SDK releases whose constructor checks the credentials: with a
\* falsy username or password it raises TwilioException and client is not
\* bound.  (Other releases send the request without them: BuildClient.)
BuildClientRaises ==
    /\ pc = "l8"
    /\ LET c == Client(account_sid, auth_token, environ)
       IN Falsy(c.username) \/ Falsy(c.password)
    /\ pc' = Propagate("l8")
    /\ UNCHANGED <<shellEnv, dotfile, run, exits, environ, account_sid,
                   auth_token, client, call, stdout, stderr, exitcode,
                   requests>>

\* lines 10-15: the arguments are read and the request is sent; the call
\* blocks until the answer.
SendCreate ==
    /\ pc = "l10"
    /\ requests' = Submit(requests, CreateRequest(client, environ, run))
    /\ pc' = "waiting"
    /\ UNCHANGED <<shellEnv, dotfile, run, exits, environ, account_sid,
                   auth_token, client, call, stdout, stderr, exitcode>>

\* lines 10-15: the provider creates the call and returns its record;
\* call is bound to it.
ProviderAccepts ==
    /\ pc = "waiting"
    /\ Len(requests) > 0
    /\ LET n == Len(requests)
       IN /\ ProviderMayAccept(requests[n])
          /\ \E s \in Sids \ UsedSids :
                /\ requests' = [requests EXCEPT ![n].state = "ok", ![n].sid = s]
                /\ call' = s
    /\ pc' = NextLine("l10")
    /\ UNCHANGED <<shellEnv, dotfile, run, exits, environ, account_sid,
                   auth_token, client, stdout, stderr, exitcode>>

\* lines 10-15: the provider rejects the request (credentials, numbers,
\* payload) or the network call fails: create() raises.
ProviderRejects ==
    /\ pc = "waiting"
    /\ Len(requests) > 0
    /\ LET n == Len(requests)
       IN requests' = [requests EXCEPT ![n].state = "error"]
    /\ pc' = Propagate("l10")
    /\ UNCHANGED <<shellEnv, dotfile, run, exits, environ, account_sid,
                   auth_token, client, call, stdout, stderr, exitcode>>

\* line 17: print("Call SID:", call.sid)
PrintSid ==
    /\ pc = "l17"
    /\ stdout' = print(stdout, call)
    /\ pc' = NextLine("l17")
    /\ UNCHANGED <<shellEnv, dotfile, run, exits, environ, account_sid,
                   auth_token, client, call, stderr, exitcode, requests>>

\* The end of the module: the interpreter exits with code 0.
ExitOk ==
    /\ pc = "eof"
    /\ exitcode' = ExitCode(FALSE)
    /\ exits' = Append(exits, exitcode')
    /\ pc' = "exited"
    /\ UNCHANGED <<shellEnv, dotfile, run, environ, account_sid, auth_token,
                   client, call, stdout, stderr, requests>>

\* An exception left the module: the interpreter writes the trace to
\* standard error and exits with code 1.
ExitUncaught ==
    /\ pc = "raised"
    /\ stderr' = Append(stderr, "Traceback")
    /\ exitcode' = ExitCode(TRUE)
    /\ exits' = Append(exits, exitcode')
    /\ pc' = "exited"
    /\ UNCHANGED <<shellEnv, dotfile, run, environ, account_sid, auth_token,
                   client, call, stdout, requests>>

\* The script is started again, with the same shell environment and .env
\* file: a new process, which has nothing of the one before.
StartAgain ==
    /\ pc = "exited"
    /\ run < MaxRuns
    /\ run' = run + 1
    /\ pc' = "l4"
    /\ environ' = shellEnv
    /\ account_sid' = None
    /\ auth_token' = None
    /\ client' = NoClient
    /\ call' = None
    /\ stdout' = <<>>
    /\ stderr' = <<>>
    /\ exitcode' = -1
    /\ UNCHANGED <<shellEnv, dotfile, exits, requests>>

\* The steps of the process itself.
ProgramStep ==
    \/ LoadDotenv
    \/ ReadAccountSid
    \/ ReadAuthToken
    \/ BuildClient
    \/ BuildClientRaises
    \/ SendCreate
    \/ PrintSid
    \/ ExitOk
    \/ ExitUncaught

ProviderStep ==
    \/ ProviderAccepts
    \/ ProviderRejects

Next ==
    \/ ProgramStep
    \/ ProviderStep
    \/ StartAgain

Spec == Init /\ [][Next]_vars

\* The interpreter keeps executing statements: a process that can take a
\* step takes it.  Nothing is assumed of the provider or of the user.
FairSpec == Spec /\ WF_vars(ProgramStep)

(***************************************************************************)
(* What the claims speak of.                                               *)
(***************************************************************************)

\* line 4 has executed: os.environ holds what os.getenv will return.
Loaded == pc # "l4"

\* The provider created the call this run asked for.
AcceptedThisRun == \E i \in RequestsOf(run) : requests[i].state = "ok"

\* The provider, or the network, failed the request of this run.
RejectedThisRun == \E i \in RequestsOf(run) : requests[i].state = "error"

\* A line of the form  Call SID: <non-empty identifier>.
SuccessLine(l) == Len(l) = 2 /\ l[1] = "Call SID:" /\ Truthy(l[2])

AllConfigSet == \A k \in ConfigKeys : Truthy(environ[k])

\* The credential the SDK ends up with for a variable of the script.
Effective(k, sdk) == IF Truthy(environ[k]) THEN environ[k] ELSE environ[sdk]

\* C1: once the provider has accepted the request of a run, the run never
\* fails, never has more than one line on standard output, and goes on to
\* exit with code 0 with exactly one line  Call SID: <identifier>  printed.
C1_SuccessPrintsOneLineAndExits ==
    /\ [](AcceptedThisRun =>
            /\ Len(stdout) <= 1
            /\ exitcode # 1
            /\ pc \in {"l17", "eof", "exited"}
            /\ (pc \in {"eof", "exited"} =>
                   Len(stdout) = 1 /\ SuccessLine(stdout[1])))
    /\ [](AcceptedThisRun =>
            <>(/\ pc = "exited"
               /\ exitcode = 0
               /\ Len(stdout) = 1
               /\ SuccessLine(stdout[1])))

C1_Witness ==
    /\ pc = "exited"
    /\ AllConfigSet
    /\ AcceptedThisRun
    /\ exitcode = 0
    /\ Len(stdout) = 1

\* C2, as claimed: after the environment is loaded, if one of the four
\* variables is missing or empty, the run prints no line and does not exit
\* with code 0.
C2_AnyMissingNeverPrints ==
    (Loaded /\ ~AllConfigSet) => (stdout = <<>> /\ exitcode # 0)

\* C2, amended: after the environment is loaded, if to or from_ is missing
\* or empty, or account_sid or auth_token is missing or empty and its SDK
\* variable (TWILIO_ACCOUNT_SID, TWILIO_AUTH_TOKEN) is missing or empty
\* too, the run prints no line, never gets past the request and does not
\* exit with code 0.
C2_MissingWithoutSdkFallbackNeverPrints ==
    (/\ Loaded
     /\ \/ Falsy(environ["to"])
        \/ Falsy(environ["from_"])
        \/ Falsy(Effective("account_sid", "TWILIO_ACCOUNT_SID"))
        \/ Falsy(Effective("auth_token", "TWILIO_AUTH_TOKEN")))
    => (stdout = <<>> /\ exitcode # 0 /\ pc \notin {"l17", "eof"})

C2_Witness ==
    /\ pc = "exited"
    /\ Falsy(environ["to"])
    /\ Truthy(environ["account_sid"])
    /\ Truthy(environ["auth_token"])
    /\ Truthy(environ["from_"])
    /\ RejectedThisRun
    /\ exitcode = 1
    /\ stdout = <<>>

\* C3: when the request of a run was answered with an error, the run is
\* leaving through the uncaught exception or has exited with a non-zero
\* code, nothing is on standard output, no call record is bound and no
\* second request was made.
C3_ProviderErrorFailsTheRun ==
    RejectedThisRun =>
        /\ pc \in {"raised", "exited"}
        /\ (pc = "exited" => exitcode = 1)
        /\ exitcode # 0
        /\ stdout = <<>>
        /\ call = None
        /\ Cardinality(RequestsOf(run)) = 1

C3_Witness ==
    /\ pc = "exited"
    /\ RejectedThisRun
    /\ AllConfigSet
    /\ exitcode = 1
    /\ stderr # <<>>

\* C4: no run, whatever its outcome and its environment, has more than one
\* request in the provider's log.
C4_AtMostOneRequestPerRun ==
    \A r \in 1..MaxRuns : Cardinality(RequestsOf(r)) <= 1

C4_Witness ==
    /\ run = 2
    /\ pc = "exited"
    /\ exits = <<1, 0>>
    /\ Cardinality(RequestsOf(1)) = 1
    /\ Cardinality(RequestsOf(2)) = 1

\* C5: every request in the provider's log carries the payload
\* <Response><Say>HOW are you</Say></Response>, character for character.
C5_PayloadIsTheFixedTwiml ==
    \A i \in 1..Len(requests) :
        requests[i].twiml = "<Response><Say>HOW are you</Say></Response>"

C5_Witness ==
    /\ Len(requests) = 2
    /\ requests[1].to = "+1555-to-file"
    /\ requests[2].from_ = ""
    /\ requests[2].username = "AC-sdk"

\* C6: every run that has executed the create call has a request of its own
\* in the provider's log, whatever the runs before it sent; a run starts
\* with nothing bound and the shell's environment; and the calls the
\* provider created have different identifiers.
C6_EveryRunSendsItsOwnRequest ==
    /\ (client.built /\ pc # "l10") => Cardinality(RequestsOf(run)) = 1
    /\ pc = "l4" =>
          /\ environ = shellEnv
          /\ account_sid = None
          /\ auth_token = None
          /\ client = NoClient
          /\ call = None
          /\ stdout = <<>>
    /\ \A i, j \in 1..Len(requests) :
          (i # j /\ requests[i].state = "ok" /\ requests[j].state = "ok")
              => requests[i].sid # requests[j].sid

C6_Witness ==
    /\ run = 2
    /\ pc = "exited"
    /\ exits = <<0, 0>>
    /\ Len(requests) = 2
    /\ requests[1].to = requests[2].to
    /\ requests[1].from_ = requests[2].from_
    /\ requests[1].username = requests[2].username
    /\ requests[1].password = requests[2].password
    /\ requests[1].sid # requests[2].sid

\* C7, as claimed: the request of a run carries the environment's to and
\* from_ and the credentials account_sid and auth_token of the environment
\* (a missing and an empty credential both count as no credential).
C7_RequestCarriesTheFourValues ==
    \A i \in RequestsOf(run) :
        /\ requests[i].to = environ["to"]
        /\ requests[i].from_ = environ["from_"]
        /\ \/ requests[i].username = environ["account_sid"]
           \/ Falsy(requests[i].username) /\ Falsy(environ["account_sid"])
        /\ \/ requests[i].password = environ["auth_token"]
           \/ Falsy(requests[i].password) /\ Falsy(environ["auth_token"])

\* C7, amended: the request of a run carries the environment's to and
\* from_ unchanged; its credentials are account_sid and auth_token where
\* these are non-empty, and otherwise the environment's TWILIO_ACCOUNT_SID
\* and TWILIO_AUTH_TOKEN.
C7_RequestCarriesValuesOrSdkFallback ==
    \A i \in RequestsOf(run) :
        /\ requests[i].to = environ["to"]
        /\ requests[i].from_ = environ["from_"]
        /\ requests[i].username = Effective("account_sid", "TWILIO_ACCOUNT_SID")
        /\ requests[i].password = Effective("auth_token", "TWILIO_AUTH_TOKEN")
        /\ (Truthy(environ["account_sid"]) =>
               requests[i].username = environ["account_sid"])
        /\ (Truthy(environ["auth_token"]) =>
               requests[i].password = environ["auth_token"])

C7_Witness ==
    /\ \E i \in RequestsOf(run) :
          /\ requests[i].to = "+1555-to"
          /\ requests[i].from_ = "+1555-from-file"
          /\ requests[i].username = "AC-shell"
          /\ requests[i].password = "token-file"
    /\ environ["TWILIO_ACCOUNT_SID"] = "AC-sdk"

\* C8: a client exists only once the environment is loaded, a request only
\* once the client exists, and a printed line only once the request of the
\* same run was accepted; the line is  Call SID:  followed by the identifier
\* of the call the provider created for that request.
C8_PrintsAfterTheRequestReturned ==
    /\ client.built => (Loaded /\ environ = load_dotenv(shellEnv, dotfile))
    /\ RequestsOf(run) # {} => client.built
    /\ stdout # <<>> =>
          \E i \in RequestsOf(run) :
              /\ requests[i].state = "ok"
              /\ call = requests[i].sid
              /\ stdout = << <<"Call SID:", requests[i].sid>> >>

C8_Witness ==
    /\ run = 2
    /\ stdout # <<>>
    /\ Len(requests) = 2
    /\ requests[1].state = "ok"
    /\ stdout[1][2] = requests[2].sid

\* C9, as claimed: within a run the process environment never changes.
C9_EnvironNeverWritten == [][run' = run => environ' = environ]_vars

\* C9, amended: within a run the process environment changes only at line
\* 4, where load_dotenv adds variables of the .env file that are not set
\* and changes none that is set; the shell's environment and the .env file
\* do not change; the run adds at most one request to the provider's log
\* and at most one line to standard output, and touches no earlier request.
C9_OnlyLoadDotenvAddsToEnviron ==
    [][run' = run =>
         /\ (pc # "l4" => environ' = environ)
         /\ \A k \in Keys : environ[k] # None => environ'[k] = environ[k]
         /\ \A k \in Keys : environ'[k] \in {environ[k], dotfile[k]}
         /\ shellEnv' = shellEnv
         /\ dotfile' = dotfile
         /\ Len(stdout') <= 1
         /\ Len(requests') <= Len(requests) + 1
         /\ \A i \in 1..Len(requests) :
               requests[i].run # run => requests'[i] = requests[i]
      ]_vars

C9_Witness ==
    /\ pc = "exited"
    /\ environ # shellEnv
    /\ shellEnv["to"] = "+1555-to"
    /\ dotfile["to"] = "+1555-to-file"
    /\ environ["to"] = "+1555-to"
    /\ Len(stdout) = 1

\* C10: while the request is outstanding nothing of the process changes
\* until the answer arrives; a run that is not left waiting for ever for
\* the answer exits; and it exits either with code 0 and the  Call SID:
\* line printed, or with code 1.
C10_BlocksThenTerminates ==
    /\ [][pc = "waiting" =>
            \/ UNCHANGED procVars
            \/ /\ pc' \in {"l17", "raised"}
               /\ requests'[Len(requests')].state # "pending"]_vars
    /\ [](pc = "l4" => <>(pc = "exited" \/ [](pc = "waiting")))
    /\ [](pc = "exited" =>
            \/ exitcode = 0 /\ Len(stdout) = 1 /\ SuccessLine(stdout[1])
            \/ exitcode = 1 /\ stdout = <<>>)

C10_Witness ==
    /\ run = 2
    /\ pc = "exited"
    /\ exits = <<0, 1>>
    /\ RejectedThisRun

====
